---- MODULE Spec2Model ----
(***************************************************************************)
(* Linear-chain CRF inference (crf.py) and its partial-supervision variant *)
(* (partial_crf.py).                                                       *)
(*                                                                         *)
(* Numbers.  A plain score (a parameter, an emission, a gold score, a      *)
(* Viterbi score) is an integer counting tenths: 0.1 is 1, 1.0 is 10.      *)
(* A log-space quantity produced by log_sum_exp is kept exactly, as the    *)
(* bag of the plain scores it aggregates: the bag b stands for             *)
(*     log( SUM over k of b[k] * exp(k/10) ).                               *)
(* Adding a plain score shifts the bag, adding two log-space quantities    *)
(* multiplies the two sums, log_sum_exp adds them.  Two bags are equal     *)
(* exactly when the two reals are (exp(1/10) is transcendental).           *)
(***************************************************************************)
EXTENDS Integers, Sequences, FiniteSets, Bags, TLC

\* ------------------------------------------------------------------ bounds
MaxLen == 3      \* longest padded sequence length L
MaxBatch == 2    \* largest batch size B

\* ------------------------------------------------------- program constants
NumTags == 2     \* CRF(num_tags = 2)
Tags == 0 .. (NumTags - 1)

\* IMPOSSIBLE_SCORE = -10000000.0, in tenths
IMPOSSIBLE_SCORE == (-10000000) * 10

\* exp(x) is 0.0 in float arithmetic once x is this far (in tenths) below 0
\* (float32: x < -104; float64: x < -746); every legitimate score of the model
\* is far above it and every score that holds a sentinel far below it
UnderflowGap == 1000 * 10

\* -------------------------------------------------------------- arithmetic
RECURSIVE SumOver(_, _)
SumOver(S, f) ==
    IF S = {} THEN 0
    ELSE LET x == CHOOSE y \in S : TRUE IN f[x] + SumOver(S \ {x}, f)

Max(S) == CHOOSE x \in S : \A y \in S : y <= x

\* a plain score as a log-space quantity
Const(s) == s :> 1

\* the largest plain score a log-space quantity aggregates: its magnitude
Mag(x) == Max(DOMAIN x)

\* x + s for a log-space quantity x and a plain score s
Shift(x, s) == [k \in {a + s : a \in DOMAIN x} |-> x[k - s]]

\* x + y of two log-space quantities
Plus(x, y) ==
    IF Cardinality(DOMAIN y) = 1 /\ y[Mag(y)] = 1 THEN Shift(x, Mag(y))
    ELSE [k \in {a + b : a \in DOMAIN x, b \in DOMAIN y} |->
            SumOver({a \in DOMAIN x : (k - a) \in DOMAIN y},
                    [a \in DOMAIN x |-> IF (k - a) \in DOMAIN y THEN x[a] * y[k - a] ELSE 0])]

\* x * m for a mask entry m (0.0 or 1.0): x itself, or the number 0.0
TimesMask(x, m) == IF m = 1 THEN x ELSE Const(0)

\* log_sum_exp over the entries of a tag-indexed vector: the maximum is
\* subtracted before exponentiating, so an entry more than UnderflowGap below
\* the largest contributes exp(.) = 0.0
RECURSIVE BagSum(_, _)
BagSum(S, f) ==
    IF S = {} THEN EmptyBag
    ELSE LET x == CHOOSE y \in S : TRUE IN f[x] (+) BagSum(S \ {x}, f)

log_sum_exp(vec) ==
    LET top  == Max({Mag(vec[u]) : u \in DOMAIN vec})
        kept == {u \in DOMAIN vec : Mag(vec[u]) >= top - UnderflowGap}
    IN  BagSum(kept, vec)

\* ------------------------------------------------------------------ tensors
\* a right-padding mask of a row with `len` valid positions out of L
MaskOf(len, L) == [i \in 1 .. L |-> IF i <= len THEN 1 ELSE 0]

\* mask.sum(0): the number of valid positions of a row
MaskSum(m) == SumOver(DOMAIN m, m)


\* -------------------------------------------------------------------- state
VARIABLES
    start_transitions,  \* CRF.start_transitions[v]
    end_transitions,    \* CRF.end_transitions[v]
    transitions,        \* CRF.transitions[u][v]
    pc,                 \* "idle", "returned" or "raised": where the caller is
    op,                 \* the operation the caller invoked last
    args,               \* the arguments as the caller passed them
    emissions,          \* the caller's emissions tensor after the call
    ret                 \* what the operation returned

vars == <<start_transitions, end_transitions, transitions, pc, op, args, emissions, ret>>
params == <<start_transitions, end_transitions, transitions>>

\* ------------------------------------------------- CRF._denominator_score
\* alpha = start_transitions + emissions[0]
AlphaInit(e1) == [v \in Tags |-> Const(start_transitions[v] + e1[v])]

\* AlphaStep with the transition read from v to u
AlphaStep_Transposed(alpha, e_i, m_i) ==
    [v \in Tags |->
        Plus(TimesMask(log_sum_exp([u \in Tags |->
                           Plus(Plus(alpha[u], Const(e_i[v])), Const(transitions[v][u]))]),
                       m_i),
             TimesMask(alpha[v], 1 - m_i))]

\* one pass of the loop for one row: e_i = emissions[i], m_i = mask[i]
AlphaStep(alpha, e_i, m_i) ==
    [v \in Tags |->
        Plus(TimesMask(log_sum_exp([u \in Tags |->
                           Plus(Plus(alpha[u], Const(e_i[v])), Const(transitions[u][v]))]),
                       m_i),
             TimesMask(alpha[v], 1 - m_i))]

\* alpha of one row after the loop has run up to (1-based) position i
RECURSIVE AlphaAt(_, _, _)
AlphaAt(e, m, i) ==
    IF i = 1 THEN AlphaInit(e[1])
    ELSE AlphaStep(AlphaAt(e, m, i - 1), e[i], m[i])

\* stops = alpha + end_transitions; log_sum_exp(stops)
AlphaStop(alpha) ==
    log_sum_exp([v \in Tags |-> Plus(alpha[v], Const(end_transitions[v]))])

denominator_score(em, mk) ==
    [b \in DOMAIN em |-> AlphaStop(AlphaAt(em[b], mk[b], Len(em[b])))]

\* --------------------------------------------------- CRF._numerator_score
\* GoldStep with the emission of the next tag
GoldStep_NextTagEmission(e, t, m, i) ==
    transitions[t[i]][t[i + 1]] * m[i + 1] + e[i][t[i + 1]] * m[i]

\* what one pass of the loop adds to the score of a row
GoldStep(e, t, m, i) ==
    transitions[t[i]][t[i + 1]] * m[i + 1] + e[i][t[i]] * m[i]

RECURSIVE GoldLoop(_, _, _, _)
GoldLoop(e, t, m, n) ==
    IF n = 0 THEN start_transitions[t[1]]
    ELSE GoldLoop(e, t, m, n - 1) + GoldStep(e, t, m, n)

\* last_tag_index = mask.sum(0) - 1, 0-based; gather refuses an index
\* outside 0 .. sequence_length - 1
LastTagIndex(m) == MaskSum(m) - 1

\* GoldLast with the tag at the padded index sequence_length - 1
GoldLast_PaddedIndex(e, t, m) ==
    LET L         == Len(e)
        last_tags == t[L]
    IN  end_transitions[last_tags] + e[L][last_tags] * m[L]

GoldLast(e, t, m) ==
    LET L         == Len(e)
        last_tags == t[LastTagIndex(m) + 1]
    IN  end_transitions[last_tags] + e[L][last_tags] * m[L]

numerator_raises(mk) ==
    \E b \in DOMAIN mk : LastTagIndex(mk[b]) \notin 0 .. (Len(mk[b]) - 1)

numerator_score(em, tg, mk) ==
    [b \in DOMAIN em |->
        GoldLoop(em[b], tg[b], mk[b], Len(em[b]) - 1) + GoldLast(em[b], tg[b], mk[b])]

\* ------------------------------------------------- CRF._forward_algorithm
\* ForwardSeed with beta seeded by 0 instead of end_transitions
ForwardSeed_NoEnd(e, reverse_direction) ==
    IF reverse_direction
    THEN [v \in Tags |-> Const(0)]
    ELSE [v \in Tags |-> Const(e[1][v] + start_transitions[v])]

\* log_proba[0]: alpha seeded by the first emissions and start_transitions,
\* beta seeded by end_transitions
ForwardSeed(e, reverse_direction) ==
    IF reverse_direction
    THEN [v \in Tags |-> Const(end_transitions[v])]
    ELSE [v \in Tags |-> Const(e[1][v] + start_transitions[v])]

\* ForwardStep that advances at padded positions too
ForwardStep_NoMask(prev, e_i, m_i, reverse_direction) ==
    [v \in Tags |->
        log_sum_exp([u \in Tags |->
            Plus(Plus(prev[u],
                      Const(IF reverse_direction THEN transitions[v][u]
                                                 ELSE transitions[u][v])),
                 Const(IF reverse_direction THEN e_i[u] ELSE e_i[v]))])]

\* one pass of the loop: inner[u][v] is reduced over u (dim 1); backwards the
\* transitions and the emissions are the transposed ones
ForwardStep(prev, e_i, m_i, reverse_direction) ==
    [v \in Tags |->
        Plus(TimesMask(log_sum_exp([u \in Tags |->
                 Plus(Plus(prev[u],
                           Const(IF reverse_direction THEN transitions[v][u]
                                                      ELSE transitions[u][v])),
                      Const(IF reverse_direction THEN e_i[u] ELSE e_i[v]))]),
                       m_i),
             TimesMask(prev[v], 1 - m_i))]

\* log_proba after k passes; pass k reads position k + 1 forwards and
\* position L - k + 1 backwards (1-based)
RECURSIVE ForwardList(_, _, _, _)
ForwardList(e, m, reverse_direction, k) ==
    IF k = 0 THEN <<ForwardSeed(e, reverse_direction)>>
    ELSE LET lp == ForwardList(e, m, reverse_direction, k - 1)
             i  == IF reverse_direction THEN Len(e) - k + 1 ELSE k + 1
         IN  Append(lp, ForwardStep(lp[Len(lp)], e[i], m[i], reverse_direction))

Reverse(s) == [i \in 1 .. Len(s) |-> s[Len(s) + 1 - i]]

\* one row of the stacked result: log_proba[i][v]
forward_algorithm(e, m, reverse_direction) ==
    LET lp == ForwardList(e, m, reverse_direction, Len(e) - 1)
    IN  IF reverse_direction THEN Reverse(lp) ELSE lp

\* --------------------------------------------- CRF.marginal_probabilities
\* exp(alpha + beta - z) is kept as the pair num = alpha + beta, den = z:
\* the probability is exp(num) / exp(den)
marginal_probabilities(em, mk) ==
    [b \in DOMAIN em |->
        LET alpha == forward_algorithm(em[b], mk[b], FALSE)
            beta  == forward_algorithm(em[b], mk[b], TRUE)
            z     == log_sum_exp([v \in Tags |->
                         Plus(alpha[Len(alpha)][v], Const(end_transitions[v]))])
        IN  [i \in 1 .. Len(alpha) |->
                [v \in Tags |-> [num |-> Plus(alpha[i][v], beta[i][v]), den |-> z]]]]

\* ----------------------------- CRF.viterbi_decode, PartialCRF._viterbi_tags
\* tensor.max(dim): the largest value and the index of its first occurrence
ArgMax(f) == CHOOSE u \in DOMAIN f : /\ \A w \in DOMAIN f : f[w] <= f[u]
                                     /\ \A w \in DOMAIN f : f[w] = f[u] => u <= w

\* next_score[u][v] = score[u] + transitions[u][v] + emissions[i][v]
NextScore(score, e_i) ==
    [v \in Tags |-> [u \in Tags |-> score[u] + transitions[u][v] + e_i[v]]]

ViterbiIndices(score, e_i) == [v \in Tags |-> ArgMax(NextScore(score, e_i)[v])]

\* score = torch.where(mask[i], next_score.max(dim=1), score)
ViterbiStep(score, e_i, m_i) ==
    [v \in Tags |->
        IF m_i = 1 THEN NextScore(score, e_i)[v][ViterbiIndices(score, e_i)[v]]
        ELSE score[v]]

RECURSIVE ViterbiScore(_, _, _)
ViterbiScore(e, m, i) ==
    IF i = 1 THEN [v \in Tags |-> start_transitions[v] + e[1][v]]
    ELSE ViterbiStep(ViterbiScore(e, m, i - 1), e[i], m[i])

\* history: one entry for every pass of the loop, padded positions included
ViterbiHistory(e, m) ==
    [k \in 1 .. (Len(e) - 1) |-> ViterbiIndices(ViterbiScore(e, m, k), e[k + 1])]

\* a Python slice s[:n]
PySlice(s, n) ==
    IF n >= 0 THEN SubSeq(s, 1, IF n < Len(s) THEN n ELSE Len(s))
    ELSE IF Len(s) + n > 0 THEN SubSeq(s, 1, Len(s) + n) ELSE <<>>

\* best_tags while following reversed(history[:seq_ends]): hist holds the
\* backpointers still to follow, the last one first
RECURSIVE FollowBack(_, _)
FollowBack(best_tags, hist) ==
    IF hist = <<>> THEN best_tags
    ELSE FollowBack(Append(best_tags, hist[Len(hist)][best_tags[Len(best_tags)]]),
                    SubSeq(hist, 1, Len(hist) - 1))

\* the final score vector of a row: score += end_transitions
ViterbiFinal(e, m) ==
    [v \in Tags |-> ViterbiScore(e, m, Len(e))[v] + end_transitions[v]]

\* BestTags that follows the whole history, padded positions included
BestTags_WholeHistory(e, m) ==
    Reverse(FollowBack(<<ArgMax(ViterbiFinal(e, m))>>, ViterbiHistory(e, m)))

\* seq_ends = mask.sum(0) - 1
BestTags(e, m) ==
    LET seq_ends == MaskSum(m) - 1
    IN  Reverse(FollowBack(<<ArgMax(ViterbiFinal(e, m))>>,
                           PySlice(ViterbiHistory(e, m), seq_ends)))

viterbi_decode(em, mk) == [b \in DOMAIN em |-> BestTags(em[b], mk[b])]

\* ------------------------------------------- PartialCRF._numerator_score
\* emissions.transpose(0, 1).contiguous() is the caller's own storage when
\* the transposed view is already contiguous (a dimension of size 1 is not
\* looked at): batch_size = 1 or sequence_length = 1; otherwise it is a copy
SharesStorage(em) == Len(em) = 1 \/ Len(em[1]) = 1

\* emissions_score = emissions[i]; emissions_score[next_possible_tags == 0] =
\* IMPOSSIBLE_SCORE, written into the working array
RestrictedEmission(e_i, next_possible_tags) ==
    [v \in Tags |-> IF next_possible_tags[v] = 0 THEN IMPOSSIBLE_SCORE ELSE e_i[v]]

\* the working array of one row once the loop has run: every position from the
\* second on has been written, valid or padded
WorkingRow(e, poss) ==
    [i \in 1 .. Len(e) |-> IF i = 1 THEN e[1] ELSE RestrictedEmission(e[i], poss[i])]

\* transitions * current_possible_tags * next_possible_tags, then every entry
\* that equals 0 is set to IMPOSSIBLE_SCORE
RestrictedTransitions(current_possible_tags, next_possible_tags) ==
    [u \in Tags |-> [v \in Tags |->
        LET t == transitions[u][v] * current_possible_tags[u] * next_possible_tags[v]
        IN  IF t = 0 THEN IMPOSSIBLE_SCORE ELSE t]]

\* alpha = start_transitions + emissions[0]; alpha[first_possible_tag == 0] =
\* IMPOSSIBLE_SCORE
PartialInit(e1, first_possible_tag) ==
    [v \in Tags |-> IF first_possible_tag[v] = 0 THEN Const(IMPOSSIBLE_SCORE)
                    ELSE Const(start_transitions[v] + e1[v])]

PartialStep(alpha, e_i, m_i, current_possible_tags, next_possible_tags) ==
    LET emissions_score   == RestrictedEmission(e_i, next_possible_tags)
        transition_scores == RestrictedTransitions(current_possible_tags, next_possible_tags)
    IN  [v \in Tags |->
            Plus(TimesMask(log_sum_exp([u \in Tags |->
                     Plus(Plus(alpha[u], Const(emissions_score[v])),
                          Const(transition_scores[u][v]))]),
                           m_i),
                 TimesMask(alpha[v], 1 - m_i))]

RECURSIVE PartialAt(_, _, _, _)
PartialAt(e, m, poss, i) ==
    IF i = 1 THEN PartialInit(e[1], poss[1])
    ELSE PartialStep(PartialAt(e, m, poss, i - 1), e[i], m[i], poss[i - 1], poss[i])

\* possible_tags viewed as (batch_size * sequence_length, num_tags) and indexed
\* by last_tag_indexes + arange(batch_size) * sequence_length; an index tensor
\* wraps a negative index around the end.  b is the 1-based row.
LastPossible(possible, mk, b) ==
    LET B    == Len(possible)
        L    == Len(possible[1])
        idx  == (MaskSum(mk[b]) - 1) + (b - 1) * L
        flat == IF idx < 0 THEN idx + B * L ELSE idx
    IN  possible[(flat \div L) + 1][(flat % L) + 1]

\* end_transitions * (possible tags of the last position), then every entry
\* that equals 0 is set to IMPOSSIBLE_SCORE
RestrictedEnd(last_possible) ==
    [v \in Tags |->
        LET t == end_transitions[v] * last_possible[v]
        IN  IF t = 0 THEN IMPOSSIBLE_SCORE ELSE t]

partial_numerator_score(em, mk, possible) ==
    [b \in DOMAIN em |->
        LET alpha == PartialAt(em[b], mk[b], possible[b], Len(em[b]))
            ends  == RestrictedEnd(LastPossible(possible, mk, b))
        IN  log_sum_exp([v \in Tags |-> Plus(alpha[v], Const(ends[v]))])]

\* the caller's emissions tensor once partial_numerator_score has returned
EmissionsAfterNumerator(em, possible) ==
    IF SharesStorage(em)
    THEN [b \in DOMAIN em |-> WorkingRow(em[b], possible[b])]
    ELSE em

\* ------------------------------------------------------ PartialCRF.forward
\* the tag that marks a position without annotation
UNLABELED_INDEX == -1

\* create_possible_tag_masks: the one allowed tag of an annotated position,
\* every tag for a position without annotation
create_possible_tag_masks(tg) ==
    [b \in DOMAIN tg |-> [i \in DOMAIN tg[b] |-> [v \in Tags |->
        IF tg[b][i] = UNLABELED_INDEX \/ tg[b][i] = v THEN 1 ELSE 0]]]

\* torch.sum(forward_score - gold_score), kept as the pair num = sum of the
\* forward scores, den = sum of the gold scores: the loss is num - den
RECURSIVE PlusAll(_, _)
PlusAll(f, n) == IF n = 0 THEN Const(0) ELSE Plus(PlusAll(f, n - 1), f[n])

Loss(forward_score, gold_score) ==
    [num |-> PlusAll(forward_score, Len(forward_score)),
     den |-> PlusAll(gold_score, Len(gold_score))]

\* ------------------------------------------------------------------ inputs
\* reset_parameters draws every entry from uniform(-0.1, 0.1)
InitialParams ==
    [start |-> [v \in Tags |-> IF v = 0 THEN 1 ELSE -1],
     end   |-> [v \in Tags |-> IF v = 0 THEN -1 ELSE 1],
     trans |-> [u \in Tags |-> [v \in Tags |-> IF u < v THEN -1 ELSE 1]]]

\* the trained parameters the optimizer may leave behind: start = [0.1, -0.2],
\* end = [0.3, 0.1], transitions = [[0.5, -0.5], [-0.5, 0.5]], and the same with
\* one entry of a table equal to 0.0
TrainedParams ==
    [start |-> [v \in Tags |-> IF v = 0 THEN 1 ELSE -2],
     end   |-> [v \in Tags |-> IF v = 0 THEN 3 ELSE 1],
     trans |-> [u \in Tags |-> [v \in Tags |-> IF u = v THEN 5 ELSE -5]]]

LastTag == NumTags - 1

ParamChoices ==
    {TrainedParams,
     [TrainedParams EXCEPT !.start[0] = 0],
     [TrainedParams EXCEPT !.end[LastTag] = 0],
     [TrainedParams EXCEPT !.trans[0][LastTag] = 0],
     [TrainedParams EXCEPT !.trans[LastTag][LastTag] = 0]}

\* the emissions of one position: 1.0 for one tag and 0.0 for the others, or
\* 0.0 for every tag
EmisVecs ==
    {[v \in Tags |-> IF v = h THEN 10 ELSE 0] : h \in Tags} \cup {[v \in Tags |-> 0]}
EmisRows(L) == [1 .. L -> EmisVecs]
TagRows(L) == [1 .. L -> Tags]
PartialTagRows(L) == [1 .. L -> Tags \cup {UNLABELED_INDEX}]
PossibleRows(L) == [1 .. L -> [Tags -> {0, 1}]]

NoTags == <<>>

\* the other rows of a batch: one valid position, the rest padding
CompanionRow(L) ==
    [e    |-> [i \in 1 .. L |-> [v \in Tags |-> 3 * i + v]],
     len  |-> 1,
     t    |-> [i \in 1 .. L |-> i % NumTags],
     poss |-> [i \in 1 .. L |-> [v \in Tags |-> 1]]]

\* a batch of B rows of padded length L with row r at place p
Batch(B, p, L, r) == [b \in 1 .. B |-> IF b = p THEN r ELSE CompanionRow(L)]

\* the batch sizes tried, and the places of row r in a batch of B rows
BatchSizes == {1, MaxBatch}
Places(B) == {1, B}

EmissionsOf(batch) == [b \in DOMAIN batch |-> batch[b].e]
MasksOf(batch) == [b \in DOMAIN batch |-> MaskOf(batch[b].len, Len(batch[b].e))]
TagsOf(batch) == [b \in DOMAIN batch |-> batch[b].t]
PossibleOf(batch) == [b \in DOMAIN batch |-> batch[b].poss]

Passed(em, mk, tg, possible) ==
    [emissions |-> em, mask |-> mk, tags |-> tg, possible_tags |-> possible]

\* --------------------------------------------------------------- behaviour
Init ==
    /\ start_transitions = InitialParams.start
    /\ end_transitions = InitialParams.end
    /\ transitions = InitialParams.trans
    /\ pc = "idle"
    /\ op = "none"
    /\ args = <<>>
    /\ emissions = <<>>
    /\ ret = <<>>

\* the optimizer updates the parameters between two calls
UpdateParameters ==
    /\ pc = "idle"
    /\ \E q \in ParamChoices :
        /\ start_transitions' = q.start
        /\ end_transitions' = q.end
        /\ transitions' = q.trans
    /\ UNCHANGED <<pc, op, args, emissions, ret>>

\* CRF.forward: _numerator_score, then _denominator_score
Forward ==
    /\ pc = "idle"
    /\ \E L \in 1 .. MaxLen, B \in BatchSizes :
       \E p \in Places(B), e \in EmisRows(L), len \in 0 .. L, t \in TagRows(L) :
        LET batch == Batch(B, p, L, [e |-> e, len |-> len, t |-> t, poss |-> NoTags])
            em    == EmissionsOf(batch)
            mk    == MasksOf(batch)
            tg    == TagsOf(batch)
        IN  /\ args' = Passed(em, mk, tg, NoTags)
            /\ emissions' = em
            /\ IF numerator_raises(mk)
               THEN pc' = "raised" /\ ret' = "index out of bounds"
               ELSE LET gold_score    == numerator_score(em, tg, mk)
                        forward_score == denominator_score(em, mk)
                    IN  /\ pc' = "returned"
                        /\ ret' = [gold_score    |-> gold_score,
                                   forward_score |-> forward_score,
                                   loss |-> Loss(forward_score,
                                                 [b \in DOMAIN em |-> Const(gold_score[b])])]
    /\ op' = "forward"
    /\ UNCHANGED params

\* CRF.marginal_probabilities
MarginalProbabilities ==
    /\ pc = "idle"
    /\ \E L \in 1 .. MaxLen, B \in BatchSizes :
       \E p \in Places(B), e \in EmisRows(L), len \in 0 .. L :
        LET batch == Batch(B, p, L, [e |-> e, len |-> len, t |-> NoTags, poss |-> NoTags])
            em    == EmissionsOf(batch)
            mk    == MasksOf(batch)
        IN  /\ args' = Passed(em, mk, NoTags, NoTags)
            /\ emissions' = em
            /\ ret' = marginal_probabilities(em, mk)
    /\ pc' = "returned"
    /\ op' = "marginal_probabilities"
    /\ UNCHANGED params

\* CRF.viterbi_decode and PartialCRF._viterbi_tags
ViterbiDecode ==
    /\ pc = "idle"
    /\ \E L \in 1 .. MaxLen, B \in BatchSizes :
       \E p \in Places(B), e \in EmisRows(L), len \in 0 .. L :
        LET batch == Batch(B, p, L, [e |-> e, len |-> len, t |-> NoTags, poss |-> NoTags])
            em    == EmissionsOf(batch)
            mk    == MasksOf(batch)
        IN  /\ args' = Passed(em, mk, NoTags, NoTags)
            /\ emissions' = em
            /\ ret' = viterbi_decode(em, mk)
    /\ pc' = "returned"
    /\ op' = "viterbi_decode"
    /\ UNCHANGED params

\* PartialCRF._numerator_score
PartialNumeratorScore ==
    /\ pc = "idle"
    /\ \E L \in 1 .. MaxLen, B \in BatchSizes :
       \E p \in Places(B), e \in EmisRows(L), len \in 0 .. L, poss \in PossibleRows(L) :
        LET batch == Batch(B, p, L, [e |-> e, len |-> len, t |-> NoTags, poss |-> poss])
            em    == EmissionsOf(batch)
            mk    == MasksOf(batch)
            ps    == PossibleOf(batch)
        IN  /\ args' = Passed(em, mk, NoTags, ps)
            /\ emissions' = EmissionsAfterNumerator(em, ps)
            /\ ret' = partial_numerator_score(em, mk, ps)
    /\ pc' = "returned"
    /\ op' = "partial_numerator_score"
    /\ UNCHANGED params

\* PartialCRF.forward: create_possible_tag_masks, _numerator_score, then
\* _denominator_score on the caller's emissions
PartialForward ==
    /\ pc = "idle"
    /\ \E L \in 1 .. MaxLen, B \in BatchSizes :
       \E p \in Places(B), e \in EmisRows(L), len \in 0 .. L, t \in PartialTagRows(L) :
        LET batch == Batch(B, p, L, [e |-> e, len |-> len, t |-> t, poss |-> NoTags])
            em    == EmissionsOf(batch)
            mk    == MasksOf(batch)
            tg    == TagsOf(batch)
            ps    == create_possible_tag_masks(tg)
            gold_score    == partial_numerator_score(em, mk, ps)
            after         == EmissionsAfterNumerator(em, ps)
            forward_score == denominator_score(after, mk)
        IN  /\ args' = Passed(em, mk, tg, ps)
            /\ emissions' = after
            /\ ret' = [gold_score    |-> gold_score,
                       forward_score |-> forward_score,
                       loss          |-> Loss(forward_score, gold_score)]
    /\ pc' = "returned"
    /\ op' = "partial_forward"
    /\ UNCHANGED params

\* the caller takes the result (or the error) and is ready for the next call
Return ==
    /\ pc \in {"returned", "raised"}
    /\ pc' = "idle"
    /\ op' = "none"
    /\ args' = <<>>
    /\ emissions' = <<>>
    /\ ret' = <<>>
    /\ UNCHANGED params

\* a CRF in use
Next ==
    \/ UpdateParameters
    \/ Forward
    \/ MarginalProbabilities
    \/ ViterbiDecode
    \/ Return

Spec == Init /\ [][Next]_vars

\* a PartialCRF in use
NextPartial ==
    \/ UpdateParameters
    \/ PartialNumeratorScore
    \/ PartialForward
    \/ ViterbiDecode
    \/ Return

SpecPartial == Init /\ [][NextPartial]_vars

\* ------------------------------------------------------------ enumeration
\* score(seq) of a tag sequence over the first Len(seq) positions of a row
PathScore(e, seq) ==
    LET n == Len(seq)
    IN  start_transitions[seq[1]]
        + SumOver(1 .. n, [i \in 1 .. n |-> e[i][seq[i]]])
        + SumOver(1 .. (n - 1), [i \in 1 .. (n - 1) |-> transitions[seq[i]][seq[i + 1]]])
        + end_transitions[seq[n]]

\* log of the sum of exp(score(seq)) over the tag sequences of a set
LogSumOfPaths(e, seqs) ==
    [k \in {PathScore(e, q) : q \in seqs} |->
        Cardinality({q \in seqs : PathScore(e, q) = k})]

\* the tag sequences of n positions, and those that pick an allowed tag everywhere
AllPaths(n) == [1 .. n -> Tags]
AllowedPaths(n, poss) == {q \in AllPaths(n) : \A i \in 1 .. n : poss[i][q[i]] = 1}

Rows == DOMAIN args.emissions
ValidLen(b) == MaskSum(args.mask[b])
PaddedLen(b) == Len(args.emissions[b])
Returned(o) == pc = "returned" /\ op = o

\* the row cut down to its valid positions, as a batch of one unpadded row
Unpadded(b) == <<SubSeq(args.emissions[b], 1, ValidLen(b))>>
UnpaddedMask(b) == <<MaskOf(ValidLen(b), ValidLen(b))>>

\* ------------------------------------------------------------------ claims
\* C1: for every row with a non-empty prefix mask, exp(logZ) of the partition
\* engine is the sum of exp(score(seq)) over all tag sequences of the valid
\* positions.
C1_PartitionIsSumOverAllPaths ==
    Returned("forward") =>
        \A b \in Rows :
            ret.forward_score[b] = LogSumOfPaths(args.emissions[b], AllPaths(ValidLen(b)))

C1_Witness ==
    /\ Returned("forward")
    /\ Len(args.emissions) = 2
    /\ \E b \in Rows : ValidLen(b) = 2 /\ PaddedLen(b) = 3
    /\ \E b \in Rows : BagCardinality(ret.forward_score[b]) = NumTags * NumTags

\* C2: the gold scorer returns start[tag_0] + the emissions of the valid
\* positions + the transitions between valid positions + end[tag_{len-1}],
\* whatever the tags and emissions at padded positions and the other rows'
\* lengths.
C2_GoldScoreIsPathScore ==
    Returned("forward") =>
        \A b \in Rows :
            ret.gold_score[b] =
                PathScore(args.emissions[b], SubSeq(args.tags[b], 1, ValidLen(b)))

C2_Witness ==
    /\ Returned("forward")
    /\ Len(args.emissions) = 2
    /\ ValidLen(1) = 2 /\ PaddedLen(1) = 3 /\ ValidLen(2) = 1
    /\ args.tags[1][2] # args.tags[1][3]
    /\ args.emissions[1][3][args.tags[1][2]] # 0

MaxPathScore(e, n) == Max({PathScore(e, q) : q \in AllPaths(n)})

\* C3: the decoded sequence of a row with a non-empty prefix mask has the
\* row's valid length and its score is the largest score of all tag sequences
\* of the valid positions.
C3_ViterbiIsArgMax ==
    Returned("viterbi_decode") =>
        \A b \in Rows : ValidLen(b) >= 1 =>
            /\ Len(ret[b]) = ValidLen(b)
            /\ \A i \in 1 .. Len(ret[b]) : ret[b][i] \in Tags
            /\ PathScore(args.emissions[b], ret[b])
                   = MaxPathScore(args.emissions[b], ValidLen(b))

C3_Witness ==
    /\ Returned("viterbi_decode")
    /\ \E b \in Rows :
        /\ ValidLen(b) = 2 /\ PaddedLen(b) = 3
        /\ ret[b][1] # ret[b][2]
        /\ Cardinality({q \in AllPaths(2) : PathScore(args.emissions[b], q)
                            = MaxPathScore(args.emissions[b], 2)}) = 1

\* C5: logZ, the marginals at the valid positions and the decoded path of a
\* padded row are those of the row without its padding.
C5_PaddingInvariance ==
    /\ Returned("forward") =>
        \A b \in Rows :
            ret.forward_score[b] = denominator_score(Unpadded(b), UnpaddedMask(b))[1]
    /\ Returned("marginal_probabilities") =>
        \A b \in Rows : ValidLen(b) >= 1 =>
            \A i \in 1 .. ValidLen(b) :
                ret[b][i] = marginal_probabilities(Unpadded(b), UnpaddedMask(b))[1][i]
    /\ Returned("viterbi_decode") =>
        \A b \in Rows : ValidLen(b) >= 1 =>
            ret[b] = viterbi_decode(Unpadded(b), UnpaddedMask(b))[1]

C5_Witness ==
    /\ Returned("marginal_probabilities")
    /\ \E b \in Rows :
        /\ ValidLen(b) = 1 /\ PaddedLen(b) = 3
        /\ \E v \in Tags : args.emissions[b][2][v] # 0
        /\ \E v \in Tags : args.emissions[b][3][v] # 0

\* C6: at every valid position of a row with a non-empty prefix mask the
\* marginals sum to 1: the sum over v of exp(alpha_i(v) + beta_i(v)) is
\* exp(logZ).
C6_MarginalsSumToOne ==
    Returned("marginal_probabilities") =>
        \A b \in Rows : ValidLen(b) >= 1 =>
            \A i \in 1 .. ValidLen(b) :
                /\ \A v \in Tags : ret[b][i][v].den = ret[b][i][0].den
                /\ log_sum_exp([v \in Tags |-> ret[b][i][v].num]) = ret[b][i][0].den

C6_Witness ==
    /\ Returned("marginal_probabilities")
    /\ transitions[0][1] # transitions[1][0]
    /\ \E b \in Rows :
        /\ ValidLen(b) = 3
        /\ ret[b][2][0].num # ret[b][2][1].num

\* the concrete scenario of the specification
ScenarioEmissions ==
    <<[v \in Tags |-> IF v = 0 THEN 10 ELSE 0],
      [v \in Tags |-> IF v = 1 THEN 10 ELSE 0],
      [v \in Tags |-> IF v = 0 THEN 10 ELSE 0]>>
ScenarioTags == <<0, 1, 0>>

InScenario ==
    /\ Returned("forward")
    /\ start_transitions = TrainedParams.start
    /\ end_transitions = TrainedParams.end
    /\ transitions = TrainedParams.trans
    /\ args.emissions = <<ScenarioEmissions>>
    /\ args.mask = <<MaskOf(3, 3)>>
    /\ args.tags = <<ScenarioTags>>

\* exp(x) > exp(s / 10) for sure: x aggregates a score >= s and something more
ExceedsScore(x, s) ==
    \E k \in DOMAIN x : k >= s /\ (k > s \/ BagCardinality(x) > 1)

\* C7 as stated: in the scenario the gold score of tags [0, 1, 0] is 3.2 and
\* logZ is strictly greater.
C7_ScenarioAsStated ==
    InScenario => /\ ret.gold_score[1] = 32
                  /\ ExceedsScore(ret.forward_score[1], 32)

\* C7, amended: in the scenario the gold score of tags [0, 1, 0] is 2.4
\* (= 0.1 + 1 + (-0.5) + 1 + (-0.5) + 1 + 0.3) and logZ is strictly greater
\* than this value.
C7_Scenario ==
    InScenario => /\ ret.gold_score[1] = 24
                  /\ ExceedsScore(ret.forward_score[1], 24)

C7_Witness ==
    /\ InScenario
    /\ BagCardinality(ret.forward_score[1]) = 8


\* every valid position of row b has an allowed tag
CandidatesNonEmpty(b) ==
    \A i \in 1 .. ValidLen(b) : \E v \in Tags : args.possible_tags[b][i][v] = 1

\* C4: for a row whose valid positions all have a non-empty candidate set the
\* partial gold scorer returns the log of the sum of exp(score(seq)) over
\* exactly the tag sequences that pick an allowed tag at every valid position,
\* whatever the values of the scores, 0 included.
C4_PartialIsSumOverAllowedPaths ==
    Returned("partial_numerator_score") =>
        \A b \in Rows : (ValidLen(b) >= 1 /\ CandidatesNonEmpty(b)) =>
            ret[b] = LogSumOfPaths(args.emissions[b],
                                   AllowedPaths(ValidLen(b), args.possible_tags[b]))

\* every row has a valid position and every valid position an allowed tag
WellFormedPartialCall ==
    \A b \in Rows : ValidLen(b) >= 1 /\ CandidatesNonEmpty(b)

\* C8: the partial gold scorer leaves the caller's emissions as they were,
\* whatever the batch size, so the denominator of PartialCRF.forward is the
\* logZ of the emissions passed.
C8_EmissionsUnchanged ==
    /\ (Returned("partial_numerator_score") /\ WellFormedPartialCall) =>
        emissions = args.emissions
    /\ (Returned("partial_forward") /\ WellFormedPartialCall) =>
        /\ emissions = args.emissions
        /\ ret.forward_score = denominator_score(args.emissions, args.mask)

\* C9: a call of the gold scorer, the partial gold scorer or the Viterbi
\* decoder with a row whose mask is entirely false reports an error and
\* returns nothing.
C9_ZeroLengthIsReported ==
    (/\ op \in {"forward", "viterbi_decode", "partial_numerator_score", "partial_forward"}
     /\ \E b \in Rows : ValidLen(b) = 0)
        => pc = "raised"

\* C10: a call of the partial gold scorer with a valid position that has no
\* allowed tag reports an error and returns no score.
C10_EmptyCandidateSetIsReported ==
    (/\ op = "partial_numerator_score"
     /\ \E b \in Rows : ~CandidatesNonEmpty(b))
        => pc = "raised"

====
